---- MODULE Spec2Model ----
(***************************************************************************)
(* One session of ssh_forward_proxy (Proxy, ProxyServer or Server): the    *)
(* command rendezvous between paramiko's callback thread and the session   *)
(* thread, target resolution, the relay, exit-status delivery and the      *)
(* teardown in the finally blocks.                                         *)
(***************************************************************************)
EXTENDS Integers, Sequences, FiniteSets, TLC

\* ------------------------------------------------------------------ bounds
MaxDeliveries == 2
MaxLen == 2
MaxConnections == 3

\* ------------------------------------------------------------- small sets
None == "None"
Variants == {"Proxy", "ProxyServer", "Server"}
Commands == {"ls", "id"}
Bytes == {0, 1}
Statuses == {0, 3}
ConfiguredUser == "proxyuser"
CallerNames == {"alice", "bob"}
ConfiguredTarget == [host |-> "cfghost", port |-> 2200]
ChannelName(k) == <<"ch1", "ch2", "ch3", "ch4">>[k]

RECURSIVE SeqsUpTo(_, _)
SeqsUpTo(S, n) ==
    IF n = 0 THEN {<<>>}
    ELSE LET shorter == SeqsUpTo(S, n - 1)
         IN  shorter \cup {Append(s, b) : s \in {t \in shorter : Len(t) = n - 1}, b \in S}

Streams == SeqsUpTo(Bytes, MaxLen)

\* Routing strings, as sequences of characters.
HostStrings ==
    { <<"b", "@", "h", ":", "7">>,
      <<"b", "@", "h">>,
      <<"b", "h">>,
      <<"b", "@", "h", ":", "x">> }

VARIABLES
    variant,      \* which class the worker constructs
    pc,           \* position of the session thread
    queue,        \* ServerInterface.queue
    delivered,    \* every pair check_channel_exec_request was called with
    username,     \* Proxy.username
    env,          \* ProxyServer.env, a function from the keys set so far
    client,       \* the channel returned by get_command, or None
    command,      \* the command returned by get_command, or None
    clientClosed, \* client.closed
    target,       \* kwargs of connect_to_remote: <<[username, host, port]>>, or <<>>
    remote,       \* Proxy.remote: None or "SSHClient"
    remoteStatus, \* <<status>> once the remote command's exit status is ready, else <<>>
    process,      \* Server's process: None, "running", "exited", "killed"
    procStatus,   \* <<returncode>> once the process has exited, else <<>>
    pipes,        \* process pipes still open
    io,           \* the data of the relay's three directions
    error,        \* the exception in flight (escaped once pc = "done")
    log,          \* every call made on the collaborators, in order
    reply,        \* <<[call, arg, result]>>: what the latest callback returned
    loop,         \* run_server: position of the accept loop
    sock,         \* run_server: the listening socket
    accepted,     \* run_server: the sockets sock.accept() returned, in order
    workers,      \* run_server: every Thread created, in order
    threads       \* run_server: the list threads, as indices into workers

\* the state of run_server, which no step of a session touches
acceptor == << loop, sock, accepted, workers, threads >>

\* the state of one session, which no step of run_server touches
session ==
    << variant, pc, queue, delivered, username, env, client, command,
       clientClosed, target, remote, remoteStatus, process, procStatus,
       pipes, io, error, log, reply >>

vars ==
    << variant, pc, queue, delivered, username, env, client, command,
       clientClosed, target, remote, remoteStatus, process, procStatus,
       pipes, io, error, log, reply, acceptor >>

Call(op, arg) == [op |-> op, arg |-> arg]

Count(op) == Cardinality({i \in 1..Len(log) : log[i].op = op})

HOST == "__HOST__"
EnvKeys == {HOST, "LANG"}
EnvValues(key) == IF key = HOST THEN HostStrings ELSE {<<"C">>}

Min(a, b) == IF a < b THEN a ELSE b

\* The two endpoints of a relay.  rd/rdErr: what the endpoint still has to
\* deliver on its output and error direction; wr/wrErr: what has been written
\* to it.  A client channel delivers the caller's stdin on rd and takes the
\* target's stdout and stderr on wr and wrErr; a target delivers its stdout
\* and stderr on rd and rdErr and takes its stdin on wr.
Endpoint(rd, rdErr) == [rd |-> rd, rdErr |-> rdErr, wr |-> <<>>, wrErr |-> <<>>]

EmptyIO ==
    [ client |-> Endpoint(<<>>, <<>>),
      target |-> Endpoint(<<>>, <<>>),
      sent |-> [in |-> <<>>, out |-> <<>>, err |-> <<>>] ]

StartIO(i, o, e) ==
    [ client |-> Endpoint(i, <<>>),
      target |-> Endpoint(o, e),
      sent |-> [in |-> i, out |-> o, err |-> e] ]

\* the data of a session's relay: one byte in every direction
SessionIO == StartIO(<<0>>, <<1>>, <<0>>)

Init ==
    /\ variant \in Variants
    /\ pc = "get_command"
    /\ queue = <<>>
    /\ delivered = <<>>
    /\ username = ConfiguredUser
    /\ env = <<>>
    /\ client = None
    /\ command = None
    /\ clientClosed = FALSE
    /\ target = <<>>
    /\ remote = None
    /\ remoteStatus = <<>>
    /\ process = None
    /\ procStatus = <<>>
    /\ pipes = {}
    /\ io = EmptyIO
    /\ error = None
    /\ log = <<>>
    /\ reply = <<>>
    /\ loop = "accept"
    /\ sock = "listening"
    /\ accepted = <<>>
    /\ workers = <<>>
    /\ threads = <<>>

\* ------------------------------------------------------------ queue.Queue
QueuePutFront(q, item) == <<item>> \o q

\* queue.put at line 55
QueuePut(q, item) == Append(q, item)

\* queue.get at line 40, on a queue that is not empty
QueueGet(q) == [item |-> Head(q), rest |-> Tail(q)]

\* ------------------------------------------- callbacks (transport thread)
\* arg is the channel of an exec request and the username of a none
\* authentication; the other callbacks' arguments are not kept
Answer(call, arg, result) == [call |-> call, arg |-> arg, result |-> result]

exec_request_reply_while_waiting == pc = "get_command"

\* line 56: return True
exec_request_reply == TRUE

check_channel_exec_request(channel, cmd) ==
    /\ Len(delivered) < MaxDeliveries
    /\ channel = ChannelName(Len(delivered) + 1)
    /\ queue' = QueuePut(queue, <<channel, cmd>>)
    /\ delivered' = Append(delivered, <<channel, cmd>>)
    /\ reply' = << Answer("check_channel_exec_request", channel, exec_request_reply) >>
    /\ UNCHANGED << acceptor, variant, pc, username, env, client, command, clientClosed,
                    target, remote, remoteStatus, process, procStatus, pipes,
                    io, error, log >>

AUTH_SUCCESSFUL == "AUTH_SUCCESSFUL"
AUTH_FAILED == "AUTH_FAILED"

check_auth_none_configured(name) ==
    IF name = ConfiguredUser THEN AUTH_SUCCESSFUL ELSE AUTH_FAILED

\* lines 97 and 146: return paramiko.AUTH_SUCCESSFUL
check_auth_none_result(name) == AUTH_SUCCESSFUL

\* Proxy.check_auth_none (ProxyServer inherits it) stores the name;
\* Server.check_auth_none only answers
check_auth_none(name) ==
    /\ username' = IF variant = "Server" THEN username ELSE name
    /\ reply' = << Answer("check_auth_none", name, check_auth_none_result(name)) >>
    /\ UNCHANGED << acceptor, variant, pc, queue, delivered, env, client, command,
                    clientClosed, target, remote, remoteStatus, process,
                    procStatus, pipes, io, error, log >>

\* lines 100 and 149: return 'none'
allowed_auths(name) == "none"

get_allowed_auths(name) ==
    /\ reply' = << Answer("get_allowed_auths", None, allowed_auths(name)) >>
    /\ UNCHANGED << acceptor, variant, pc, queue, delivered, username, env, client,
                    command, clientClosed, target, remote, remoteStatus, process,
                    procStatus, pipes, io, error, log >>

check_channel_env_request(key, value) ==
    /\ variant = "ProxyServer"
    /\ env' = (key :> value) @@ env
    /\ reply' = << Answer("check_channel_env_request", None, TRUE) >>
    /\ UNCHANGED << acceptor, variant, pc, queue, delivered, username, client, command,
                    clientClosed, target, remote, remoteStatus, process,
                    procStatus, pipes, io, error, log >>

\* ------------------------------------------------------ parse_host_string
DefaultPort == 22
Digits == [c \in {"0", "1", "2", "3", "4", "5", "6", "7", "8", "9"} |->
              CASE c = "0" -> 0 [] c = "1" -> 1 [] c = "2" -> 2 [] c = "3" -> 3
                [] c = "4" -> 4 [] c = "5" -> 5 [] c = "6" -> 6 [] c = "7" -> 7
                [] c = "8" -> 8 [] c = "9" -> 9]

IndexOf(s, c) ==
    IF \E i \in 1..Len(s) : s[i] = c
    THEN CHOOSE i \in 1..Len(s) : s[i] = c /\ \A j \in 1..(i - 1) : s[j] # c
    ELSE 0

RECURSIVE ToInt(_)
ToInt(ds) == IF ds = <<>> THEN 0 ELSE 10 * ToInt(SubSeq(ds, 1, Len(ds) - 1)) + Digits[ds[Len(ds)]]

\* the string made of the characters of cs
RECURSIVE Join(_)
Join(cs) == IF cs = <<>> THEN "" ELSE Join(SubSeq(cs, 1, Len(cs) - 1)) \o cs[Len(cs)]

\* <<[username, host, port]>> for a well-formed user@host[:port], <<>> otherwise
parse_host_string(s) ==
    LET at == IndexOf(s, "@")
        rest == SubSeq(s, at + 1, Len(s))
        colon == IndexOf(rest, ":")
        host == IF colon = 0 THEN rest ELSE SubSeq(rest, 1, colon - 1)
        digits == SubSeq(rest, colon + 1, Len(rest))
        user == Join(SubSeq(s, 1, at - 1))
    IN  IF at = 0 \/ host = <<>> THEN <<>>
        ELSE IF colon = 0
             THEN << [username |-> user, host |-> Join(host), port |-> DefaultPort] >>
        ELSE IF digits = <<>> \/ \E i \in 1..Len(digits) : digits[i] \notin DOMAIN Digits
             THEN <<>>
        ELSE << [username |-> user, host |-> Join(host), port |-> ToInt(digits)] >>

\* ------------------------------------------------------- session thread
AfterGetCommandUnchecked(c) ==
    CASE variant = "Server" -> "popen"
      [] variant = "ProxyServer" -> "parse"
      [] variant = "Proxy" -> "connect"

\* Proxy.__init__ lines 64-65 and Server.__init__ lines 123-124: what the
\* constructor does with the channel get_command returned
AfterGetCommand(c) ==
    IF c # None
    THEN CASE variant = "Server" -> "popen"
           [] variant = "ProxyServer" -> "parse"
           [] variant = "Proxy" -> "connect"
    ELSE "done"

\* ServerInterface.get_command, with the lines of Proxy.__init__ and
\* Server.__init__ that act on its result.
ProxyKwargsConfigured ==
    [username |-> ConfiguredUser, host |-> ConfiguredTarget.host, port |-> ConfiguredTarget.port]

\* Proxy.__init__, line 65: relay_to_remote(client, command,
\* username=self.username, **kwargs)
ProxyKwargs ==
    [username |-> username, host |-> ConfiguredTarget.host, port |-> ConfiguredTarget.port]

get_command ==
    /\ pc = "get_command"
    /\ \/ /\ queue # <<>>
          /\ queue' = QueueGet(queue).rest
          /\ client' = QueueGet(queue).item[1]
          /\ command' = QueueGet(queue).item[2]
          /\ UNCHANGED << error, log >>
       \/ /\ queue = <<>>
          /\ \E ok \in BOOLEAN :
                /\ log' = Append(log, Call("transport.close", ok))
                /\ error' = IF ok THEN None ELSE "CloseError"
          /\ UNCHANGED << queue, client, command >>
    /\ pc' = IF error' # None THEN "done" ELSE AfterGetCommand(client')
    /\ target' = IF pc' \in {"parse", "connect"}
                 THEN << ProxyKwargs >>
                 ELSE target
    /\ UNCHANGED << reply, acceptor, variant, delivered, username, env, clientClosed, remote,
                    remoteStatus, process, procStatus, pipes, io >>

\* get_command, lines 45-47: queue.get raised something other than queue.Empty
get_command_error ==
    /\ pc = "get_command"
    /\ \E ok \in BOOLEAN :
          /\ log' = Append(log, Call("transport.close", ok))
          /\ error' = IF ok THEN "QueueError" ELSE "CloseError"
    /\ pc' = "done"
    /\ UNCHANGED << reply, acceptor, variant, queue, delivered, username, env, client, command,
                    clientClosed, target, remote, remoteStatus, process,
                    procStatus, pipes, io >>

RoutedKwargsKeepUser(kwargs, parsed) == [parsed EXCEPT !.username = kwargs.username]

\* line 115: kwargs.update(username=username, host=host, port=port)
RoutedKwargs(kwargs, parsed) == parsed

\* ProxyServer.relay_to_remote up to the super() call
ProxyServer_relay_to_remote ==
    /\ pc = "parse"
    /\ IF HOST \notin DOMAIN env
       THEN /\ error' = "KeyError"
            /\ pc' = "done"
            /\ target' = target
       ELSE IF parse_host_string(env[HOST]) = <<>>
       THEN /\ error' = "ParseError"
            /\ pc' = "done"
            /\ target' = target
       ELSE /\ target' = << RoutedKwargs(target[1], parse_host_string(env[HOST])[1]) >>
            /\ pc' = "connect"
            /\ error' = error
    /\ UNCHANGED << reply, acceptor, variant, queue, delivered, username, env, client, command,
                    clientClosed, remote, remoteStatus, process, procStatus,
                    pipes, io, log >>

\* Proxy.connect_to_remote, called at line 70
connect_to_remote ==
    /\ pc = "connect"
    /\ log' = Append(log, Call("connect", target[1]))
    /\ \/ /\ remote' = "SSHClient"
          /\ pc' = "exec"
          /\ error' = error
       \/ /\ remote' = remote
          /\ pc' = "finally"
          /\ error' = "ConnectError"
    /\ UNCHANGED << reply, acceptor, variant, queue, delivered, username, env, client, command,
                    clientClosed, target, remoteStatus, process, procStatus,
                    pipes, io >>

\* lines 71-72: open_session and exec_command
exec_command ==
    /\ pc = "exec"
    /\ \/ /\ log' = Append(log, Call("exec_command", command))
          /\ pc' = "relay"
          /\ error' = error
          /\ io' = SessionIO
       \/ /\ log' = Append(log, Call("open_session", None))
          /\ pc' = "finally"
          /\ error' = "ChannelError"
          /\ io' = io
    /\ UNCHANGED << reply, acceptor, variant, queue, delivered, username, env, client, command,
                    clientClosed, target, remote, remoteStatus, process,
                    procStatus, pipes >>

\* Server.__init__, lines 129-135: subprocess.Popen
Popen ==
    /\ pc = "popen"
    /\ \/ /\ log' = Append(log, Call("Popen", command))
          /\ process' = "running"
          /\ pipes' = {"stdin", "stdout", "stderr"}
          /\ pc' = "relay"
          /\ error' = error
          /\ io' = SessionIO
       \/ /\ log' = Append(log, Call("Popen.raise", command))
          /\ pc' = "finally"
          /\ error' = "SpawnError"
          /\ UNCHANGED << process, pipes, io >>
    /\ UNCHANGED << reply, acceptor, variant, queue, delivered, username, env, client, command,
                    clientClosed, target, remote, remoteStatus, procStatus >>

\* ------------------------------------------------------------ pipe_streams
PipeArgsSwapped == [input |-> "target", output |-> "client"]

PipeArgsTargetTwice == [input |-> "target", output |-> "target"]

\* the arguments of pipe_streams(ChannelStream(client), <target stream>)
PipeArgs == [input |-> "client", output |-> "target"]

\* a write is repeated until the whole chunk is written
Write(sink, chunk) == sink \o chunk

\* the three directions of pipe_streams(input, output): from which endpoint
\* and field the bytes are read, and to which they are written
Direction(d) ==
    CASE d = "in"  -> [from |-> PipeArgs.input,  rd |-> "rd",    to |-> PipeArgs.output, wr |-> "wr"]
      [] d = "out" -> [from |-> PipeArgs.output, rd |-> "rd",    to |-> PipeArgs.input,  wr |-> "wr"]
      [] d = "err" -> [from |-> PipeArgs.output, rd |-> "rdErr", to |-> PipeArgs.input,  wr |-> "wrErr"]

Directions == {"in", "out", "err"}

Source(d) == io[Direction(d).from][Direction(d).rd]

Drained == \A d \in Directions : Source(d) = <<>>

\* one chunk of one direction: read n bytes of the source, write them to the sink
pipe_streams_copy(d, n) ==
    /\ pc = "relay"
    /\ ~clientClosed
    /\ n \in 1..Len(Source(d))
    /\ LET dir == Direction(d)
           chunk == SubSeq(Source(d), 1, n)
           read == [io EXCEPT ![dir.from][dir.rd] = SubSeq(@, n + 1, Len(@))]
       IN  io' = [read EXCEPT ![dir.to][dir.wr] = Write(@, chunk)]
    /\ UNCHANGED << reply, acceptor, variant, pc, queue, delivered, username, env, client, command,
                    clientClosed, target, remote, remoteStatus, process,
                    procStatus, pipes, error, log >>

\* every direction has reached end-of-data, or the client channel is closed
pipe_streams_return ==
    /\ pc = "relay"
    /\ Drained \/ clientClosed
    /\ pc' = "exit_status"
    /\ log' = Append(log, Call("pipe_streams", [raised |-> FALSE, closed |-> clientClosed]))
    /\ UNCHANGED << reply, acceptor, variant, queue, delivered, username, env, client, command,
                    clientClosed, target, remote, remoteStatus, process,
                    procStatus, pipes, io, error >>

\* a fatal I/O error on an endpoint
pipe_streams_raise ==
    /\ pc = "relay"
    /\ pc' = "finally"
    /\ error' = "RelayError"
    /\ log' = Append(log, Call("pipe_streams", [raised |-> TRUE, closed |-> clientClosed]))
    /\ UNCHANGED << reply, acceptor, variant, queue, delivered, username, env, client, command,
                    clientClosed, target, remote, remoteStatus, process,
                    procStatus, pipes, io >>

\* --------------------------------------------------------- exit status
SendExitStatus(status) ==
    \E ok \in BOOLEAN :
       /\ log' = Append(log, Call("send_exit_status",
                                  [status |-> status, closed |-> clientClosed]))
       /\ error' = IF ok THEN error ELSE "SendError"

recv_exit_status_flag == IF remoteStatus # <<>> THEN 1 ELSE 0

\* remote.recv_exit_status() at line 76, once the status is ready
recv_exit_status == remoteStatus[1]

process_kill_wait == IF process = "exited" THEN {procStatus[1]} ELSE {-9}

\* process.wait() at line 139: it returns, with the return code, only once
\* the process has exited by itself; the set of what it can return now
process_wait == IF process = "exited" THEN {procStatus[1]} ELSE {}

\* Proxy.relay_to_remote, lines 75-77
Proxy_exit_status ==
    /\ pc = "exit_status"
    /\ variant # "Server"
    /\ IF remoteStatus # <<>>
       THEN SendExitStatus(recv_exit_status)
       ELSE UNCHANGED << log, error >>
    /\ pc' = "finally"
    /\ UNCHANGED << reply, acceptor, variant, queue, delivered, username, env, client, command,
                    clientClosed, target, remote, remoteStatus, process,
                    procStatus, pipes, io >>

\* Server.__init__, line 138: the test of client.closed
Server_exit_status ==
    /\ pc = "exit_status"
    /\ variant = "Server"
    /\ pc' = IF clientClosed THEN "finally" ELSE "wait"
    /\ UNCHANGED << reply, acceptor, variant, queue, delivered, username, env, client, command,
                    clientClosed, target, remote, remoteStatus, process,
                    procStatus, pipes, io, error, log >>

\* Server.__init__, line 139: process.wait() returns once the process has
\* exited, and its result is sent
Server_wait ==
    /\ pc = "wait"
    /\ \E status \in process_wait : SendExitStatus(status)
    /\ pc' = "finally"
    /\ UNCHANGED << reply, acceptor, variant, queue, delivered, username, env, client, command,
                    clientClosed, target, remote, remoteStatus, process,
                    procStatus, pipes, io >>

\* ------------------------------------------------------------- teardown
Proxy_finally_ops_send_last == <<"client.close", "send_exit_status", "transport.close">>

\* the calls of Proxy.relay_to_remote's finally block, in order
Proxy_finally_ops ==
    <<"client.close">>
    \o (IF remote # None THEN <<"remote.close">> ELSE <<>>)
    \o <<"transport.close">>

\* the calls of Server.kill_process, in order
kill_process_ops ==
    IF process # None
    THEN <<"stdout.close", "stdin.close", "stderr.close">>
         \o (IF process = "running" THEN <<"kill">> ELSE <<>>)
    ELSE <<>>

\* the calls of Server.__init__'s finally block, in order
Server_finally_ops == kill_process_ops \o <<"client.close", "transport.close">>

FinallySwallows(raised) == IF raised THEN "CloseError" ELSE None

\* the exception in flight when a finally block ends: the one a call of the
\* block raised, else the one the try block raised, if any
FinallyError(raised) == IF raised THEN "CloseError" ELSE error

\* A finally block: its calls are made in order; the first n return, and
\* call n + 1, if there is one, raises and ends the block.
Finally(ops, n) ==
    /\ pc = "finally"
    /\ n \in 0..Len(ops)
    /\ LET made == Min(n + 1, Len(ops))
           returned == {ops[i] : i \in 1..n}
       IN  /\ log' = log \o [i \in 1..made |-> Call(ops[i], i <= n)]
           /\ error' = FinallyError(n < Len(ops))
           /\ clientClosed' = (clientClosed \/ "client.close" \in returned)
           /\ pipes' = {p \in pipes : (p \o ".close") \notin returned}
           /\ process' = IF "kill" \in returned THEN "killed" ELSE process
           /\ procStatus' = IF "kill" \in returned THEN << -9 >> ELSE procStatus
    /\ pc' = "done"
    /\ UNCHANGED << reply, acceptor, variant, queue, delivered, username, env, client, command,
                    target, remote, remoteStatus, io >>

Proxy_finally(n) ==
    /\ variant # "Server"
    /\ Finally(Proxy_finally_ops, n)

Server_finally(n) ==
    /\ variant = "Server"
    /\ Finally(Server_finally_ops, n)

\* ---------------------------------------------------------- environment
\* the caller's side of the client channel goes away
ClientDisconnect ==
    /\ client # None
    /\ pc \in {"connect", "exec", "popen", "relay", "exit_status", "wait"}
    /\ ~clientClosed
    /\ clientClosed' = TRUE
    /\ UNCHANGED << reply, acceptor, variant, pc, queue, delivered, username, env, client, command,
                    target, remote, remoteStatus, process, procStatus, pipes,
                    io, error, log >>

\* the remote command ends and its exit status arrives
RemoteExit(status) ==
    /\ pc = "relay"
    /\ remote # None
    /\ remoteStatus = <<>>
    /\ remoteStatus' = << status >>
    /\ UNCHANGED << reply, acceptor, variant, pc, queue, delivered, username, env, client, command,
                    clientClosed, target, remote, process, procStatus, pipes,
                    io, error, log >>

\* the spawned process ends by itself
ProcessExit(status) ==
    /\ process = "running"
    /\ pc # "done"
    /\ process' = "exited"
    /\ procStatus' = << status >>
    /\ UNCHANGED << reply, acceptor, variant, pc, queue, delivered, username, env, client, command,
                    clientClosed, target, remote, remoteStatus, pipes, io,
                    error, log >>

Next ==
    \/ \E k \in 1..MaxDeliveries, c \in Commands :
          check_channel_exec_request(ChannelName(k), c)
    \/ \E n \in CallerNames : check_auth_none(n)
    \/ \E n \in CallerNames : get_allowed_auths(n)
    \/ \E k \in EnvKeys : \E v \in EnvValues(k) : check_channel_env_request(k, v)
    \/ get_command
    \/ get_command_error
    \/ ProxyServer_relay_to_remote
    \/ connect_to_remote
    \/ exec_command
    \/ Popen
    \/ \E d \in Directions, n \in 1..MaxLen : pipe_streams_copy(d, n)
    \/ pipe_streams_return
    \/ pipe_streams_raise
    \/ Proxy_exit_status
    \/ Server_exit_status
    \/ Server_wait
    \/ \E n \in 0..Len(Proxy_finally_ops) : Proxy_finally(n)
    \/ \E n \in 0..Len(Server_finally_ops) : Server_finally(n)
    \/ ClientDisconnect
    \/ \E s \in Statuses : RemoteExit(s)
    \/ \E s \in Statuses : ProcessExit(s)

Spec == Init /\ [][Next]_vars

\* queue.get(True, self.timeout) returns or raises within the timeout
FairSpec == Spec /\ WF_vars(get_command)

\* ---------------------------------------------------------------- run_server
\* The accept loop of run_server with worker = variant.  A worker is the
\* Thread of one accepted connection; its session is summarised by how its
\* constructor ends: it returns ("finished") or an exception leaves it
\* ("failed").
SocketName(k) == <<"sock1", "sock2", "sock3", "sock4", "sock5">>[k]

ThreadTargetProxy(worker) == "Proxy"

\* line 179: target=worker
ThreadTarget(worker) == worker

\* line 179: args=(client,)
ThreadArgs(socket) == << socket >>

\* lines 179-182: Thread(...), daemon = True, start()
Thread(worker, socket) ==
    [ target |-> ThreadTarget(worker), args |-> ThreadArgs(socket),
      daemon |-> TRUE, starts |-> 1, state |-> "running" ]

isAlive(t) == workers[t].state = "running"

\* lines 174-182: sock.accept() returns a connection; its thread is created,
\* appended to threads and started
accept_connection ==
    /\ loop = "accept"
    /\ Len(accepted) < MaxConnections
    /\ LET socket == SocketName(Len(accepted) + 1)
       IN  /\ accepted' = Append(accepted, socket)
           /\ workers' = Append(workers, Thread(variant, socket))
           /\ threads' = Append(threads, Len(workers) + 1)
    /\ loop' = "prune"
    /\ UNCHANGED << sock, session >>

\* line 171: threads = [t for t in threads if not t.isAlive()]
prune_threads ==
    /\ loop = "prune"
    /\ threads' = SelectSeq(threads, LAMBDA t : ~isAlive(t))
    /\ loop' = "accept"
    /\ UNCHANGED << sock, accepted, workers, session >>

AfterLoopExceptOnly(cause) == IF cause = "KeyboardInterrupt" THEN "closed" ELSE "listening"

\* lines 186-187: finally: sock.close()
AfterLoop(cause) == "closed"

\* lines 183-187: ctrl+c ends the loop; run_server returns
KeyboardInterrupt ==
    /\ loop \in {"accept", "prune"}
    /\ loop' = "returned"
    /\ sock' = AfterLoop("KeyboardInterrupt")
    /\ UNCHANGED << accepted, workers, threads, session >>

\* line 176 raises anything else: the finally block runs and the error
\* leaves run_server
accept_raises ==
    /\ loop = "accept"
    /\ loop' = "raised"
    /\ sock' = AfterLoop("Error")
    /\ UNCHANGED << accepted, workers, threads, session >>

worker_called_in_loop(l) == IF l \in {"accept", "prune"} THEN "raised" ELSE l

\* lines 179-182: the worker runs as the target of its own thread, so an
\* exception that leaves it ends that thread and nothing else
worker_raises(l) == l

\* the session of worker t ends
worker_ends(t, outcome) ==
    /\ t \in 1..Len(workers)
    /\ workers[t].state = "running"
    /\ workers' = [workers EXCEPT ![t].state = outcome]
    /\ loop' = IF outcome = "failed" THEN worker_raises(loop) ELSE loop
    /\ UNCHANGED << sock, accepted, threads, session >>

ServerNext ==
    \/ accept_connection
    \/ prune_threads
    \/ KeyboardInterrupt
    \/ accept_raises
    \/ \E t \in 1..MaxConnections, outcome \in {"finished", "failed"} : worker_ends(t, outcome)

ServerSpec == Init /\ [][ServerNext]_vars

\* ------------------------------------------------------------ the relay
\* A session at the call of pipe_streams (line 74, or line 137), as the tests
\* of IOTest set it up, with every choice of data for the three directions.
RelayInit ==
    /\ variant \in {"Proxy", "Server"}
    /\ pc = "relay"
    /\ queue = <<>>
    /\ delivered = << <<ChannelName(1), "ls">> >>
    /\ username = ConfiguredUser
    /\ env = <<>>
    /\ client = ChannelName(1)
    /\ command = "ls"
    /\ clientClosed = FALSE
    /\ target = IF variant = "Proxy"
                THEN << [username |-> ConfiguredUser,
                         host |-> ConfiguredTarget.host,
                         port |-> ConfiguredTarget.port] >>
                ELSE <<>>
    /\ remote = IF variant = "Proxy" THEN "SSHClient" ELSE None
    /\ remoteStatus = <<>>
    /\ process = IF variant = "Proxy" THEN None ELSE "running"
    /\ procStatus = <<>>
    /\ pipes = IF variant = "Proxy" THEN {} ELSE {"stdin", "stdout", "stderr"}
    /\ \E i \in Streams, o \in Streams, e \in Streams : io = StartIO(i, o, e)
    /\ error = None
    /\ log = IF variant = "Proxy"
             THEN << Call("connect", target[1]), Call("exec_command", "ls") >>
             ELSE << Call("Popen", "ls") >>
    /\ reply = << Answer("check_channel_exec_request", ChannelName(1), TRUE) >>
    /\ loop = "accept"
    /\ sock = "listening"
    /\ accepted = <<>>
    /\ workers = <<>>
    /\ threads = <<>>

RelayNext ==
    \/ \E d \in Directions, n \in 1..MaxLen : pipe_streams_copy(d, n)
    \/ pipe_streams_return
    \/ pipe_streams_raise
    \/ ClientDisconnect

RelaySpec == RelayInit /\ [][RelayNext]_vars

\* ================================================================ claims
IssueOps == {"exec_command", "Popen"}
CloseOps == {"client.close", "remote.close", "transport.close",
             "stdout.close", "stdin.close", "stderr.close", "kill"}

Issued == SelectSeq(log, LAMBDA c : c.op \in IssueOps)

\* a call of the log that raised
Raised(c) ==
    \/ c.op \in CloseOps /\ ~c.arg
    \/ c.op = "pipe_streams" /\ c.arg.raised
    \/ c.op \in {"open_session", "Popen.raise"}

\* every send_exit_status of the log comes before every client.close
SendBeforeClose ==
    \A i, j \in 1..Len(log) :
        (log[i].op = "send_exit_status" /\ log[j].op = "client.close") => i < j

\* C1: a session consumes at most one (channel, command) pair, the first one
\* delivered; it issues that command on the target at most once, and exactly
\* once whenever a target was resolved and the relay was reached; it connects
\* and spawns at most once; every later delivery stays in the queue.
C1_SingleCommand ==
    /\ Len(Issued) <= 1
    /\ Count("connect") <= 1
    /\ Count("Popen") + Count("Popen.raise") <= 1
    /\ client # None => /\ delivered # <<>>
                        /\ <<client, command>> = delivered[1]
                        /\ queue = Tail(delivered)
    /\ client = None => queue = delivered
    /\ \A i \in 1..Len(Issued) : client # None /\ Issued[i].arg = delivered[1][2]
    /\ (pc \in {"relay", "exit_status", "wait"} \/ Count("pipe_streams") > 0)
          => Len(Issued) = 1

C1_Witness ==
    /\ pc = "done"
    /\ Len(delivered) = 2
    /\ queue = << delivered[2] >>
    /\ delivered[1][2] # delivered[2][2]
    /\ Len(Issued) = 1
    /\ Issued[1].arg = delivered[1][2]

\* C2: when a session that consumed a command ends, client.close and
\* transport.close have each been called exactly once, and so has the
\* outbound client's close if an outbound client was connected.
C2_ClosedExactlyOnce ==
    (pc = "done" /\ client # None)
        => /\ Count("client.close") = 1
           /\ Count("transport.close") = 1
           /\ remote # None => Count("remote.close") = 1

\* C3: when the relay has returned, the client channel is open and the
\* target's status S is available, the next step of the session calls
\* client.send_exit_status(S), and no send_exit_status ever follows a
\* client.close of the session.
C3_StatusForwarded ==
    /\ [](SendBeforeClose)
    /\ [][ /\ (/\ pc = "exit_status" /\ pc' # pc
               /\ variant # "Server" /\ ~clientClosed /\ remoteStatus # <<>>)
              => log' = Append(log, Call("send_exit_status",
                                         [status |-> remoteStatus[1], closed |-> FALSE]))
           /\ (/\ pc = "exit_status" /\ pc' # pc
               /\ variant = "Server" /\ ~clientClosed)
              => pc' = "wait"
           /\ (pc = "wait" /\ pc' # pc)
              => /\ process = "exited"
                 /\ Len(log') = Len(log) + 1
                 /\ log'[Len(log')].op = "send_exit_status"
                 /\ log'[Len(log')].arg.status = procStatus[1]
                 /\ Count("client.close") = 0 ]_vars

C3_Witness ==
    /\ pc = "done"
    /\ variant = "Server"
    /\ procStatus = << 3 >>
    /\ \E i, j \in 1..Len(log) :
          /\ i < j
          /\ log[i].op = "send_exit_status"
          /\ log[i].arg.status = 3
          /\ ~log[i].arg.closed
          /\ log[j].op = "client.close"

\* C4: if the client channel is closed when pipe_streams returns, the session
\* never calls send_exit_status afterwards.
C4_NoStatusOnClosedClient ==
    \A i, j \in 1..Len(log) :
        (/\ i < j
         /\ log[i].op = "pipe_streams"
         /\ log[i].arg.closed)
        => log[j].op # "send_exit_status"

\* C5: a session whose get_command found no command has called
\* transport.close once and nothing else, has resolved no target, and has
\* ended; and the session never stays in get_command.
C5_TimeoutEnds ==
    /\ []((client = None /\ pc # "get_command")
            => /\ pc = "done"
               /\ Len(log) = 1
               /\ log[1].op = "transport.close"
               /\ target = <<>>
               /\ remote = None
               /\ process = None)
    /\ (pc = "get_command") ~> (pc # "get_command")

C5_Witness ==
    /\ pc = "done"
    /\ client = None
    /\ error = None
    /\ log = << Call("transport.close", TRUE) >>

\* C6: a session that ends with a target resolution error has run no relay,
\* has connected or spawned at most once, and has called client.close and
\* transport.close.
C6_FailedResolutionTornDown ==
    (pc = "done" /\ error \in {"KeyError", "ParseError", "ConnectError", "SpawnError"})
        => /\ Count("pipe_streams") = 0
           /\ Len(Issued) = 0
           /\ Count("connect") + Count("Popen.raise") <= 1
           /\ Count("client.close") = 1
           /\ Count("transport.close") = 1

\* the closes a session owes at its end
TeardownOps ==
    {"transport.close"}
    \cup (IF client # None THEN {"client.close"} ELSE {})
    \cup (IF remote # None THEN {"remote.close"} ELSE {})
    \cup (IF process # None THEN {"stdout.close", "stdin.close", "stderr.close"} ELSE {})

\* C7: when a finally block has run and one of its calls raised, every call
\* of the block has still been made.
C7_EveryCloseAttempted ==
    (pc = "done" /\ \E i \in 1..Len(log) : log[i].op \in CloseOps /\ ~log[i].arg)
        => \A op \in TeardownOps : Count(op) = 1

C9_StdinByteExact ==
    /\ io.target.wr \o io.client.rd = io.sent.in
    /\ (pc = "exit_status" /\ ~clientClosed) => io.target.wr = io.sent.in

C9_Witness ==
    /\ pc = "exit_status"
    /\ ~clientClosed
    /\ Len(io.sent.in) >= 2
    /\ io.sent.in[1] # io.sent.in[2]
    /\ io.target.wr = io.sent.in

\* C10: what the client has received on its output (error) direction,
\* followed by what the target has not delivered yet on that direction, is
\* what the target produced on it; when pipe_streams has returned with the
\* client channel open, the client has received all of both.
C10_OutputsInOrderUnmixed ==
    /\ io.client.wr \o io.target.rd = io.sent.out
    /\ io.client.wrErr \o io.target.rdErr = io.sent.err
    /\ (pc = "exit_status" /\ ~clientClosed)
          => /\ io.client.wr = io.sent.out
             /\ io.client.wrErr = io.sent.err

C10_Witness ==
    /\ pc = "exit_status"
    /\ ~clientClosed
    /\ Len(io.sent.out) >= 2
    /\ Len(io.sent.err) >= 2
    /\ io.sent.out # io.sent.err
    /\ io.client.wr = io.sent.out
    /\ io.client.wrErr = io.sent.err

\* C11: a ProxyServer session connects at most once, with exactly the
\* username, host and port that parse_host_string gave for the __HOST__
\* variable when relay_to_remote read it, whatever the caller's or the
\* configured username is; the kwargs do not change afterwards, and the
\* consumed command is executed after that connect.
C11_RoutedConnection ==
    /\ [](variant = "ProxyServer"
            => /\ Count("connect") <= 1
               /\ \A i \in 1..Len(log) :
                     /\ log[i].op = "connect" => log[i].arg = target[1]
                     /\ log[i].op = "exec_command"
                           => /\ log[i].arg = command
                              /\ \E j \in 1..(i - 1) : log[j].op = "connect")
    /\ [][(variant = "ProxyServer" /\ pc = "parse" /\ pc' = "connect")
            => /\ HOST \in DOMAIN env
               /\ target' = parse_host_string(env[HOST])]_vars
    /\ [][(variant = "ProxyServer" /\ pc \notin {"get_command", "parse"})
            => target' = target]_vars

C11_Witness ==
    /\ variant = "ProxyServer"
    /\ pc = "done"
    /\ username = "alice"
    /\ HOST \in DOMAIN env
    /\ env[HOST] = <<"b", "@", "h", ":", "7">>
    /\ parse_host_string(env[HOST]) = << [username |-> "b", host |-> "h", port |-> 7] >>
    /\ \E i, j \in 1..Len(log) :
          /\ i < j
          /\ log[i].op = "connect"
          /\ log[i].arg = [username |-> "b", host |-> "h", port |-> 7]
          /\ log[j].op = "exec_command"
          /\ log[j].arg = command

\* C12: in every variant and in every state of the session a none
\* authentication request can be made for any username and is answered
\* AUTH_SUCCESSFUL, and the allowed authentication methods are always
\* answered as 'none' alone.
C12_NoneAuthAlwaysGranted ==
    /\ \A n \in CallerNames : ENABLED check_auth_none(n) /\ ENABLED get_allowed_auths(n)
    /\ \A i \in 1..Len(reply) :
          /\ reply[i].call = "check_auth_none" => reply[i].result = AUTH_SUCCESSFUL
          /\ reply[i].call = "get_allowed_auths" => reply[i].result = "none"

C12_Witness ==
    /\ variant = "Server"
    /\ pc = "done"
    /\ error # None
    /\ reply = << Answer("check_auth_none", "bob", AUTH_SUCCESSFUL) >>

Stopped == {"returned", "raised"}

\* C13: under run_server, the step in which one worker's session fails
\* changes neither the accept loop, the listening socket and the accepted
\* connections nor any other worker, and the loop only ever stops in a step
\* that is no worker's.
C13_SessionsIsolated ==
    /\ [][\A t \in 1..Len(workers) :
            (workers[t].state = "running" /\ workers'[t].state = "failed")
               => (/\ loop' = loop /\ sock' = sock /\ accepted' = accepted
                   /\ Len(workers') = Len(workers)
                   /\ \A u \in 1..Len(workers) : u # t => workers'[u] = workers[u])
         ]_vars
    /\ [][(loop \notin Stopped /\ loop' \in Stopped) => workers' = workers]_vars

C13_Witness ==
    /\ Len(workers) = 3
    /\ workers[1].state = "failed"
    /\ workers[2].state = "finished"
    /\ workers[3].state = "running"
    /\ loop = "accept"
    /\ sock = "listening"

C15_StoppedLoopClosesListener ==
    /\ [](loop \in Stopped => sock = "closed")
    /\ [][(loop \in Stopped) => (loop' = loop /\ sock' = sock /\ accepted' = accepted)]_vars
    /\ [][(loop \notin Stopped /\ loop' \in Stopped)
            => (workers' = workers /\ accepted' = accepted)]_vars
    /\ [](\A t \in 1..Len(workers) :
            workers[t].state = "running" => ENABLED worker_ends(t, "finished"))

C15_Witness ==
    /\ loop = "returned"
    /\ sock = "closed"
    /\ Len(accepted) = 2
    /\ workers[1].state = "finished"
    /\ workers[2].state = "running"

\* C16: once a Server session that spawned a process has ended, the
\* process's three pipes are closed and the process is not running.
C16_ProcessReaped ==
    (variant = "Server" /\ pc = "done" /\ process # None)
        => (pipes = {} /\ process \in {"exited", "killed"})

\* C17: the relay runs only after the command was issued on the target; an
\* exit status is sent only after pipe_streams returned, and never after
\* the session called client.close or transport.close.
C17_FixedOrder ==
    /\ pc = "relay" => Len(Issued) = 1
    /\ io # EmptyIO => Len(Issued) = 1
    /\ \A i \in 1..Len(log) :
          /\ log[i].op = "pipe_streams"
                => \E j \in 1..(i - 1) : log[j].op \in IssueOps
          /\ log[i].op = "send_exit_status"
                => /\ \E j \in 1..(i - 1) :
                         log[j].op = "pipe_streams" /\ ~log[j].arg.raised
                   /\ \A j \in 1..(i - 1) :
                         log[j].op \notin {"client.close", "transport.close"}

C17_Witness ==
    /\ pc = "done"
    /\ Len(log) >= 5
    /\ log[1].op = "connect"
    /\ log[2].op = "exec_command"
    /\ log[3].op = "pipe_streams"
    /\ log[4].op = "send_exit_status"
    /\ log[5].op = "client.close"

\* C18: a session that ended without a channel (the rendezvous timed out)
\* still takes an exec request into its queue and answers it True, but
\* never consumes it: nothing was or will be spawned, connected or relayed,
\* and the session stays ended.
C18_LateRequestNeverConsumed ==
    /\ []((pc = "done" /\ client = None)
            => /\ queue = delivered
               /\ Len(Issued) = 0 /\ Count("connect") = 0 /\ Count("pipe_streams") = 0
               /\ process = None /\ remote = None /\ io = EmptyIO
               /\ (Len(delivered) < MaxDeliveries
                     => \A c \in Commands :
                           ENABLED check_channel_exec_request(ChannelName(Len(delivered) + 1), c)))
    /\ [](\A i \in 1..Len(reply) :
            reply[i].call = "check_channel_exec_request" => reply[i].result = TRUE)
    /\ [][(pc = "done") => (pc' = "done" /\ log' = log /\ client' = client)]_vars

C18_Witness ==
    /\ pc = "done"
    /\ client = None
    /\ error = None
    /\ log = << Call("transport.close", TRUE) >>
    /\ queue = << <<ChannelName(1), "ls">> >>
    /\ reply = << Answer("check_channel_exec_request", ChannelName(1), TRUE) >>

\* C19: a plain Proxy connects with the value its username field has when
\* the command is consumed.  The field starts as the configured username
\* and changes only in a none authentication, to the name presented, so at
\* consumption it is the name presented last, or the configured one if none
\* was; an authentication after consumption does not change the connection.
C19_UsernameAtConsumption ==
    /\ [][(variant = "Proxy" /\ pc = "get_command" /\ pc' = "connect")
            => (target' = << [username |-> username,
                              host |-> ConfiguredTarget.host,
                              port |-> ConfiguredTarget.port] >>)]_vars
    /\ [][(variant = "Proxy" /\ pc # "get_command") => target' = target]_vars
    /\ [][(variant = "Proxy" /\ username' # username)
            => (/\ reply' # <<>>
                /\ reply'[1].call = "check_auth_none"
                /\ username' = reply'[1].arg)]_vars
    /\ [][\A n \in CallerNames :
            (variant = "Proxy" /\ reply' = << Answer("check_auth_none", n, AUTH_SUCCESSFUL) >>
               /\ reply' # reply)
               => username' = n]_vars
    /\ [](variant = "Proxy"
            => /\ (reply = <<>> => username = ConfiguredUser)
               /\ \A i \in 1..Len(log) :
                     log[i].op = "connect" => log[i].arg = target[1])

C19_Witness ==
    /\ variant = "Proxy"
    /\ pc = "done"
    /\ username = "bob"
    /\ Count("connect") = 1
    /\ \A i \in 1..Len(log) : log[i].op = "connect" => log[i].arg.username = "alice"

\* C20: a Server session sends an exit status only while the process has
\* exited by itself: the status is the process's own return code, no kill
\* was made before, and the session goes on to its teardown from there; so
\* on this path the teardown starts with the process already exited.
C20_StatusBeforeKill ==
    /\ [][(variant = "Server" /\ Len(log') > Len(log)
             /\ log'[Len(log) + 1].op = "send_exit_status")
            => (/\ pc = "wait" /\ pc' = "finally"
                /\ process = "exited" /\ process' = process
                /\ log'[Len(log) + 1].arg.status \in Statuses
                /\ << log'[Len(log) + 1].arg.status >> = procStatus
                /\ Count("kill") = 0)]_vars
    /\ [](variant = "Server"
            => \A i \in 1..Len(log) : \A j \in 1..Len(log) :
                  (log[i].op = "kill" /\ log[j].op = "send_exit_status") => j < i)
    /\ []((variant = "Server" /\ pc = "finally" /\ Count("send_exit_status") > 0)
            => process = "exited")

C20_Witness ==
    /\ variant = "Server"
    /\ pc = "done"
    /\ process = "exited"
    /\ pipes = {}
    /\ Count("kill") = 0
    /\ \E i \in 1..Len(log) :
          /\ log[i].op = "send_exit_status"
          /\ log[i].arg.status = 0
          /\ i < Len(log)
          /\ log[i + 1].op = "stdout.close"

====
